---- MODULE Spec2Model ----
(***************************************************************************)
(* Model of examples/custom_servers/prompt_api_server.py: the process-wide *)
(* prompt catalog cache, the catalog and content fetchers, the name        *)
(* sanitizer, the description synthesizer and the four tool handlers       *)
(* (list_available_prompts, get_prompt_by_name, search_prompts,            *)
(* refresh_prompt_cache) running as asyncio coroutines on one event loop.  *)
(*                                                                         *)
(* A Python str is modelled as a sequence of one-character strings, a JSON *)
(* value as a tagged record, and a coroutine runs atomically from one real *)
(* suspension point (the awaited HTTP GET) to the next.  The result of a   *)
(* handler that returned is held in `response` until it is delivered.      *)
(***************************************************************************)
EXTENDS Integers, Sequences, FiniteSets, Bags, TLC

----------------------------------------------------------------------------
(* Python str operations used by the program                               *)

UpperLetters == <<"A","B","C","D","E","F","G","H","I","J","K","L","M",
                  "N","O","P","Q","R","S","T","U","V","W","X","Y","Z">>

LowerLetters == <<"a","b","c","d","e","f","g","h","i","j","k","l","m",
                  "n","o","p","q","r","s","t","u","v","w","x","y","z">>

Digits == {"0","1","2","3","4","5","6","7","8","9"}

UpperSet == {UpperLetters[i] : i \in 1..26}

LowerSet == {LowerLetters[i] : i \in 1..26}

IsUpper(c) == c \in UpperSet

IsLower(c) == c \in LowerSet

RECURSIVE PairUp(_, _, _)
\* the function taking from[i] to to[i]
PairUp(from, to, i) ==
    IF i > Len(from) THEN <<>>
    ELSE (from[i] :> to[i]) @@ PairUp(from, to, i + 1)

ToLower == PairUp(UpperLetters, LowerLetters, 1)

ToUpper == PairUp(LowerLetters, UpperLetters, 1)

LowerChar(c) == IF IsUpper(c) THEN ToLower[c] ELSE c

UpperChar(c) == IF IsLower(c) THEN ToUpper[c] ELSE c

\* str.lower()
lower(s) == [i \in 1..Len(s) |-> LowerChar(s[i])]

\* s.startswith(p, i): p occurs in s at index i (1-based)
OccursAt(s, p, i) ==
    /\ i + Len(p) - 1 <= Len(s)
    /\ \A j \in 1..Len(p) : s[i + j - 1] = p[j]

\* the Python operator `p in s` on strings
Contains(s, p) == \E i \in 1..(Len(s) + 1) : OccursAt(s, p, i)

RECURSIVE ReplaceFrom(_, _, _, _)
ReplaceFrom(s, old, new, i) ==
    IF i > Len(s) THEN <<>>
    ELSE IF OccursAt(s, old, i)
         THEN new \o ReplaceFrom(s, old, new, i + Len(old))
         ELSE <<s[i]>> \o ReplaceFrom(s, old, new, i + 1)

\* str.replace(old, new) for a non-empty old: every non-overlapping
\* occurrence, scanning from the left
replace(s, old, new) == ReplaceFrom(s, old, new, 1)

\* re.sub(r'[^a-zA-Z0-9_]', '', s)
IsWordChar(c) == IsUpper(c) \/ IsLower(c) \/ c \in Digits \/ c = "_"

RemoveNonWord(s) == SelectSeq(s, IsWordChar)

RECURSIVE TitleFrom(_, _, _)
TitleFrom(s, i, prevCased) ==
    IF i > Len(s) THEN <<>>
    ELSE IF IsLower(s[i])
         THEN <<(IF prevCased THEN s[i] ELSE UpperChar(s[i]))>>
              \o TitleFrom(s, i + 1, TRUE)
         ELSE IF IsUpper(s[i])
              THEN <<(IF prevCased THEN LowerChar(s[i]) ELSE s[i])>>
                   \o TitleFrom(s, i + 1, TRUE)
              ELSE <<s[i]>> \o TitleFrom(s, i + 1, FALSE)

\* str.title()
title(s) == TitleFrom(s, 1, FALSE)

\* s[:n]
Prefix(s, n) == SubSeq(s, 1, IF n < Len(s) THEN n ELSE Len(s))

DotTxt == <<".", "t", "x", "t">>

\* variant: sanitize_tool_name without the prefix for a leading digit
sanitize_tool_name_no_prefix(file_name) ==
    LET name1 == replace(replace(replace(file_name, DotTxt, <<>>),
                                 <<"-">>, <<"_">>), <<" ">>, <<"_">>)
        name2 == RemoveNonWord(name1)
    IN  IF name2 # <<>> THEN name2
        ELSE <<"u","n","k","n","o","w","n","_","p","r","o","m","p","t">>

\* sanitize_tool_name(file_name)
sanitize_tool_name(file_name) ==
    LET name1 == replace(replace(replace(file_name, DotTxt, <<>>),
                                 <<"-">>, <<"_">>), <<" ">>, <<"_">>)
        name2 == RemoveNonWord(name1)
        name3 == IF name2 # <<>> /\ name2[1] \in Digits
                 THEN <<"p","r","o","m","p","t","_">> \o name2
                 ELSE name2
    IN  IF name3 # <<>> THEN name3
        ELSE <<"u","n","k","n","o","w","n","_","p","r","o","m","p","t">>

\* variant: the category tests with "be"/"backend" ahead of the frontend
\* tokens
Category_backend_first(file_name) ==
    LET l == lower(file_name) IN
    IF Contains(l, <<"t","e","s","t">>) THEN "Testing & Quality Assurance"
    ELSE IF \/ Contains(l, <<"b","e">>)
            \/ Contains(l, <<"b","a","c","k","e","n","d">>)
         THEN "Backend Development"
    ELSE IF \/ Contains(l, <<"u","i">>)
            \/ Contains(l, <<"f","r","o","n","t","e","n","d">>)
            \/ Contains(l, <<"f","e","s">>)
         THEN "Frontend Development"
    ELSE IF Contains(l, <<"a","p","i">>) THEN "API Development"
    ELSE "General Development"

\* the category chosen by create_tool_description
Category(file_name) ==
    LET l == lower(file_name) IN
    IF Contains(l, <<"t","e","s","t">>) THEN "Testing & Quality Assurance"
    ELSE IF \/ Contains(l, <<"u","i">>)
            \/ Contains(l, <<"f","r","o","n","t","e","n","d">>)
            \/ Contains(l, <<"f","e","s">>)
         THEN "Frontend Development"
    ELSE IF \/ Contains(l, <<"b","e">>)
            \/ Contains(l, <<"b","a","c","k","e","n","d">>)
         THEN "Backend Development"
    ELSE IF Contains(l, <<"a","p","i">>) THEN "API Development"
    ELSE "General Development"

\* create_tool_description(file_name, size, updated): the f-string as the
\* tuple of its pieces
create_tool_description(file_name, size, updated) ==
    LET base_name == title(replace(replace(replace(file_name, DotTxt, <<>>),
                                           <<"-">>, <<" ">>), <<"_">>, <<" ">>))
    IN  <<"Get ", base_name, " prompt for ", Category(file_name),
          ". Size: ", size, " bytes. Last updated: ", Prefix(updated, 10)>>

----------------------------------------------------------------------------
(* Python / JSON values held in _cached_prompts and returned by the fetch  *)

JList(items) == [json |-> "list", items |-> items]

\* None (JSON null)
PyNone == [json |-> "null", items |-> <<>>]

\* {} : the value _cached_prompts is initialised with and cleared to
EmptyDict == [json |-> "dict", items |-> <<>>]

\* bool(v) of a list, a dict or None
Truthy(v) == v.json # "null" /\ v.items # <<>>

\* _cache_timestamp = None
None == -1

CACHE_DURATION == 300

----------------------------------------------------------------------------
(* The upstream: catalogs the listing endpoint can return, the answers it  *)
(* can give, and the content behind each signed URL                        *)

Date1 == <<"2","0","2","4","-","0","1","-","0","1","T","0","0",":","0","0","Z">>

Date2 == <<"2","0","2","5","-","1","2","-","3","1","T","2","3",":","5","9","Z">>

Artifact(file_name, size, updated, url) ==
    [file_name |-> file_name, size |-> size, content_type |-> "text/plain",
     updated |-> updated, expires_at |-> Date2, signed_url |-> url]

Name_a == <<"a", ".", "t", "x", "t">>

Name_Ba == <<"B", "a", ".", "t", "x", "t">>

Name_a_dash_b == <<"a", "-", "b", ".", "t", "x", "t">>

Name_1ui == <<"1", " ", "u", "i", ".", "t", "x", "t">>

Name_a_under_b == <<"a", "_", "b", ".", "t", "x", "t">>

CatEmpty == <<>>

CatTwo == << Artifact(Name_Ba, 20, Date1, "http://x/Ba"),
             Artifact(Name_a, 10, Date2, "http://x/a") >>

CatThree == << Artifact(Name_a_dash_b, 30, Date1, "http://x/a-b"),
               Artifact(Name_1ui, 40, Date1, "http://x/1ui"),
               Artifact(Name_a_under_b, 50, Date2, "http://x/a_b") >>

Catalogs == {CatEmpty, CatTwo, CatThree}

\* the file name get_fes_prompt calls get_prompt_by_name with
Name_fes == <<"f","e","s","-","p","r","o","m","p","t",".","t","x","t">>

\* file_name arguments of get_prompt_by_name, the last being the call made
\* by the pre-bound tool get_fes_prompt
GetArgs == { <<"A", ".", "T", "X", "T">>, <<"a", "_", "B", ".", "t", "x", "t">>,
             Name_fes }

\* keyword arguments of search_prompts
SearchArgs == { <<>>, <<"B">> }

NoArg == <<>>

Ops == {"list", "get", "search", "refresh"}

ArgsOf(op) == IF op = "get" THEN GetArgs
              ELSE IF op = "search" THEN SearchArgs
              ELSE {NoArg}

\* an answer of the listing endpoint: transport outcome (timeout, connection
\* error and non-2xx all make the GET or raise_for_status raise) and the
\* JSON envelope of a 2xx answer
Envelope(transport, status, has_data, data) ==
    [transport |-> transport, status |-> status, has_data |-> has_data,
     data |-> data]

OkResponses == { Envelope("2xx", 200, TRUE, JList(c)) : c \in Catalogs }

FailedResponses ==
    { Envelope("fail", 500, FALSE, PyNone),       \* timeout / connection / HTTP 500
      Envelope("2xx", 500, TRUE, JList(CatTwo)),  \* envelope status != 200
      Envelope("2xx", 200, FALSE, PyNone),        \* no data field
      Envelope("2xx", 200, TRUE, PyNone) }        \* data: null

Responses == OkResponses \cup FailedResponses

NoUpstream == Envelope("none", 0, FALSE, PyNone)

ContentOutcomes == {"ok", "fail"}

----------------------------------------------------------------------------
(* PromptCache and the two fetchers                                        *)

\* PromptCache.get_cached_prompts() evaluated on the globals (prompts, ts)
\* at time t
get_cached_prompts(prompts, ts, t) ==
    IF ts # None /\ Truthy(prompts) /\ t - ts < CACHE_DURATION
    THEN prompts
    ELSE PyNone

\* variant: fetch_prompts_from_api letting a transport failure through as
\* None instead of []
fetch_prompts_from_api_none_on_failure(resp) ==
    IF resp.transport # "2xx"
    THEN [store |-> FALSE, value |-> PyNone]
    ELSE IF resp.status = 200 /\ resp.has_data
         THEN [store |-> TRUE, value |-> resp.data]
         ELSE [store |-> FALSE, value |-> JList(<<>>)]

\* the body of fetch_prompts_from_api after the GET has answered: what the
\* call returns, and whether it went through update_cache (store)
fetch_prompts_from_api(resp) ==
    IF resp.transport # "2xx"
    THEN [store |-> FALSE, value |-> JList(<<>>)]      \* except: return []
    ELSE IF resp.status = 200 /\ resp.has_data
         THEN [store |-> TRUE, value |-> resp.data]    \* update_cache; return prompts
         ELSE [store |-> FALSE, value |-> JList(<<>>)] \* else: return []

\* the text behind a signed URL
Body(url) == <<"content of ", url>>

\* fetch_prompt_content(signed_url) once the GET has ended with outcome
fetch_prompt_content(url, outcome) ==
    IF outcome = "ok" THEN Body(url)
    ELSE <<"Error loading prompt: ", outcome>>

----------------------------------------------------------------------------
(* The tool handlers: what each returns for the catalog value `prompts`    *)
(* that fetch_prompts_from_api handed it                                   *)

FormatPrompt(prompt) ==
    [file_name |-> prompt.file_name,
     tool_name |-> sanitize_tool_name(prompt.file_name),
     size |-> prompt.size,
     content_type |-> prompt.content_type,
     updated |-> prompt.updated,
     expires_at |-> prompt.expires_at,
     description |-> create_tool_description(prompt.file_name, prompt.size,
                                             prompt.updated)]

MatchingPrompt(prompt) ==
    [file_name |-> prompt.file_name,
     tool_name |-> sanitize_tool_name(prompt.file_name),
     size |-> prompt.size,
     updated |-> prompt.updated,
     description |-> create_tool_description(prompt.file_name, prompt.size,
                                             prompt.updated)]

RECURSIVE DedupFrom(_, _)
DedupFrom(entries, i) ==
    IF i > Len(entries) THEN <<>>
    ELSE IF \E j \in 1..(i - 1) : entries[j].tool_name = entries[i].tool_name
         THEN DedupFrom(entries, i + 1)
         ELSE <<entries[i]>> \o DedupFrom(entries, i + 1)

\* variant: list_available_prompts keeping one entry per tool_name
list_available_prompts_dedup(prompts, ts, t) ==
    IF ~Truthy(prompts)
    THEN [status |-> "error",
          message |-> "No prompts available or API error",
          prompts |-> <<>>]
    ELSE LET formatted_prompts ==
                 DedupFrom([i \in 1..Len(prompts.items) |->
                               FormatPrompt(prompts.items[i])], 1)
         IN  [status |-> "success",
              total_prompts |-> Len(formatted_prompts),
              prompts |-> formatted_prompts,
              cache_info |-> [cached |-> ts # None,
                              cache_age |-> IF ts # None THEN t - ts ELSE 0]]

\* variant: list_available_prompts without its empty-catalog check
list_available_prompts_unchecked(prompts, ts, t) ==
    [status |-> "success",
     total_prompts |-> Len(prompts.items),
     prompts |-> [i \in 1..Len(prompts.items) |-> FormatPrompt(prompts.items[i])],
     cache_info |-> [cached |-> ts # None,
                     cache_age |-> IF ts # None THEN t - ts ELSE 0]]

\* list_available_prompts, given the globals' timestamp ts at time t
list_available_prompts(prompts, ts, t) ==
    IF ~Truthy(prompts)
    THEN [status |-> "error",
          message |-> "No prompts available or API error",
          prompts |-> <<>>]
    ELSE [status |-> "success",
          total_prompts |-> Len(prompts.items),
          prompts |-> [i \in 1..Len(prompts.items) |-> FormatPrompt(prompts.items[i])],
          cache_info |-> [cached |-> ts # None,
                          cache_age |-> IF ts # None THEN t - ts ELSE 0]]

\* variant: get_prompt_by_name matching by substring, like search_prompts
FindPromptSubstring(items, file_name) ==
    IF \E i \in 1..Len(items) : Contains(lower(items[i].file_name), lower(file_name))
    THEN CHOOSE i \in 1..Len(items) :
            /\ Contains(lower(items[i].file_name), lower(file_name))
            /\ \A j \in 1..(i - 1) :
                  ~Contains(lower(items[j].file_name), lower(file_name))
    ELSE 0

\* the loop of get_prompt_by_name: index of the first artifact whose
\* lower-cased file_name equals the lower-cased argument, 0 for none
FindPrompt(items, file_name) ==
    IF \E i \in 1..Len(items) : lower(items[i].file_name) = lower(file_name)
    THEN CHOOSE i \in 1..Len(items) :
            /\ lower(items[i].file_name) = lower(file_name)
            /\ \A j \in 1..(i - 1) : lower(items[j].file_name) # lower(file_name)
    ELSE 0

\* variant: the not-found hint listing lower-cased names
get_prompt_not_found_lowered(prompts, file_name) ==
    IF prompts.json = "null"
    THEN [status |-> "error",
          message |-> <<"Failed to get prompt: ", "TypeError">>]
    ELSE [status |-> "error",
          message |-> <<"Prompt '", file_name, "' not found">>,
          available_files |->
              [i \in 1..Len(prompts.items) |-> lower(prompts.items[i].file_name)]]

\* get_prompt_by_name up to its content fetch: the error result it returns
\* without fetching content (iterating None raises TypeError, caught by
\* the handler's except)
get_prompt_not_found(prompts, file_name) ==
    IF prompts.json = "null"
    THEN [status |-> "error",
          message |-> <<"Failed to get prompt: ", "TypeError">>]
    ELSE [status |-> "error",
          message |-> <<"Prompt '", file_name, "' not found">>,
          available_files |-> [i \in 1..Len(prompts.items) |-> prompts.items[i].file_name]]

\* variant: get_prompt_by_name telling the error string of
\* fetch_prompt_content from content
get_prompt_by_name_checked(target_prompt, content) ==
    IF content[1] = "Error loading prompt: "
    THEN [status |-> "error",
          message |-> content]
    ELSE [status |-> "success",
          file_name |-> target_prompt.file_name,
          content |-> content,
          metadata |-> [size |-> target_prompt.size,
                        updated |-> target_prompt.updated,
                        content_type |-> target_prompt.content_type]]

\* get_prompt_by_name after its content fetch returned content
get_prompt_by_name(target_prompt, content) ==
    [status |-> "success",
     file_name |-> target_prompt.file_name,
     content |-> content,
     metadata |-> [size |-> target_prompt.size,
                   updated |-> target_prompt.updated,
                   content_type |-> target_prompt.content_type]]

RECURSIVE SearchFromCaseSensitive(_, _, _)
\* variant: search_prompts comparing without lower-casing
SearchFromCaseSensitive(items, keyword, i) ==
    IF i > Len(items) THEN <<>>
    ELSE IF Contains(items[i].file_name, keyword)
         THEN <<MatchingPrompt(items[i])>>
              \o SearchFromCaseSensitive(items, keyword, i + 1)
         ELSE SearchFromCaseSensitive(items, keyword, i + 1)

RECURSIVE SearchFrom(_, _, _)
\* the loop of search_prompts from index i on
SearchFrom(items, keyword, i) ==
    IF i > Len(items) THEN <<>>
    ELSE IF Contains(lower(items[i].file_name), lower(keyword))
         THEN <<MatchingPrompt(items[i])>> \o SearchFrom(items, keyword, i + 1)
         ELSE SearchFrom(items, keyword, i + 1)

search_prompts(prompts, keyword) ==
    IF prompts.json = "null"
    THEN [status |-> "error",
          message |-> <<"Failed to search prompts: ", "TypeError">>]
    ELSE LET matching_prompts == SearchFrom(prompts.items, keyword, 1)
         IN  [status |-> "success",
              keyword |-> keyword,
              matches_found |-> Len(matching_prompts),
              prompts |-> matching_prompts]

\* variant: refresh_prompt_cache reporting an empty catalog as an error, the
\* way list_available_prompts does
refresh_prompt_cache_empty_is_error(prompts, t) ==
    IF ~Truthy(prompts)
    THEN [status |-> "error",
          message |-> "No prompts available or API error"]
    ELSE [status |-> "success",
          message |-> "Cache refreshed successfully",
          total_prompts |-> Len(prompts.items),
          timestamp |-> t]

\* refresh_prompt_cache after its fetch returned (len(None) raises
\* TypeError, caught by the handler's except); t stands for the isoformat
\* timestamp of the result
refresh_prompt_cache(prompts, t) ==
    IF prompts.json = "null"
    THEN [status |-> "error",
          message |-> <<"Failed to refresh cache: ", "TypeError">>]
    ELSE [status |-> "success",
          message |-> "Cache refreshed successfully",
          total_prompts |-> Len(prompts.items),
          timestamp |-> t]

----------------------------------------------------------------------------
(* Bounds                                                                  *)

\* number of requests the event loop runs concurrently
MaxReq == 2

\* number of times the clock is observed to advance
MaxTicks == 2

\* clock advances: by one second less than the cache duration, or by it
Steps == {CACHE_DURATION - 1, CACHE_DURATION}

----------------------------------------------------------------------------
(* State                                                                   *)

VARIABLES
    cached_prompts,    \* global _cached_prompts
    cache_timestamp,   \* global _cache_timestamp (None, or seconds)
    now,               \* datetime.now(timezone.utc), in seconds
    ticks,             \* clock advances so far
    tasks,             \* bag of the suspended handler coroutines (their locals)
    in_flight,         \* catalog GETs sent whose answer is not yet processed
    file_name,         \* the argument of a call of sanitize_tool_name
    tool_name,         \* what that call returned (<<>> before it is made)
    description,       \* what create_tool_description returned for file_name
                       \* (<<>> before it is called)
    budget,            \* how many more tool calls the clients will make
                       \* (Unbounded: any number)
    ordered,           \* whether the frames record the order in which catalog
                       \* GETs and refresh invalidations happened (history
                       \* no code reads)
    response           \* the result of the handler that just returned, if any

vars == <<cached_prompts, cache_timestamp, now, ticks, tasks, in_flight,
          file_name, tool_name, description, ordered, budget, response>>

\* the variables of the server proper
server_vars == <<cached_prompts, cache_timestamp, now, ticks, tasks, in_flight,
                 response>>

\* the budget of clients that never stop calling
Unbounded == -1

NoResponse ==
    [op |-> "none", arg |-> NoArg, prompts |-> PyNone,
     fetched |-> FALSE, valid_at_start |-> FALSE, upstream |-> NoUpstream,
     superseded |-> FALSE,
     content_outcome |-> "none", result |-> [status |-> "none"]]

\* variant: refresh_prompt_cache without its invalidation
RefreshKept == [prompts |-> cached_prompts, ts |-> cache_timestamp]

\* the globals as refresh_prompt_cache leaves them before it fetches
RefreshCleared == [prompts |-> EmptyDict, ts |-> None]

\* variant: refresh_prompt_cache clearing _cached_prompts only
CacheAtStart_half_cleared(op) ==
    IF op = "refresh" THEN [prompts |-> EmptyDict, ts |-> cache_timestamp]
    ELSE [prompts |-> cached_prompts, ts |-> cache_timestamp]

\* the globals a handler sees when it starts running
CacheAtStart(op) ==
    IF op = "refresh" THEN RefreshCleared
    ELSE [prompts |-> cached_prompts, ts |-> cache_timestamp]

\* variant: the handlers without their except clauses, the TypeError that
\* iterating or measuring None raises reaching the caller
HandlerResult_uncaught(op, arg, prompts, ts) ==
    IF op = "list" THEN list_available_prompts(prompts, ts, now)
    ELSE IF prompts.json = "null"
         THEN [status |-> "raised", message |-> <<"TypeError">>]
    ELSE IF op = "search" THEN search_prompts(prompts, arg)
    ELSE IF op = "refresh" THEN refresh_prompt_cache(prompts, now)
    ELSE get_prompt_not_found(prompts, arg)

\* the result of a handler that ends without a content fetch
HandlerResult(op, arg, prompts, ts) ==
    IF op = "list" THEN list_available_prompts(prompts, ts, now)
    ELSE IF op = "search" THEN search_prompts(prompts, arg)
    ELSE IF op = "refresh" THEN refresh_prompt_cache(prompts, now)
    ELSE get_prompt_not_found(prompts, arg)

\* index of the artifact get_prompt_by_name will fetch the content of
TargetOf(op, arg, prompts) ==
    IF op = "get" /\ prompts.json # "null"
    THEN FindPrompt(prompts.items, arg)
    ELSE 0

\* the bag b with each frame g replaced by change[g]
MapBag(b, change) ==
    LET S == BagToSet(b)
        T == {change[g] : g \in S}
    IN  [h \in T |-> BagCardinality([g \in {k \in S : change[k] = h}
                                        |-> CopiesIn(g, b)])]

\* the suspended coroutines when a refresh_prompt_cache call clears the
\* globals: each pending catalog GET now has one more refresh that started
\* after it was sent (later_refreshes orders the pending GETs against the
\* pending refreshes; a refresh's own count is its place among them)
Invalidated(b) ==
    MapBag(b, [g \in BagToSet(b) |->
                  IF g.pc = "catalog_wait" /\ ~g.superseded
                  THEN [g EXCEPT !.later_refreshes = @ + 1]
                  ELSE g])

\* the other suspended coroutines when the catalog GET of the refresh with
\* count n ends: the catalog GETs sent before its invalidation have one
\* pending refresh less after them, and are superseded if it stored
RefreshEnded(b, n, stored) ==
    MapBag(b, [g \in BagToSet(b) |->
                  IF g.pc = "catalog_wait" /\ ~g.superseded
                     /\ g.later_refreshes > n
                  THEN IF stored
                       THEN [g EXCEPT !.later_refreshes = 0,
                                      !.superseded = TRUE]
                       ELSE [g EXCEPT !.later_refreshes = @ - 1]
                  ELSE g])

\* the suspended coroutines waiting at suspension point p
Waiting(p) == {f \in BagToSet(tasks) : f.pc = p}

\* how many of them there are
NumWaiting(p) ==
    BagCardinality([f \in Waiting(p) |-> CopiesIn(f, tasks)])

Init ==
    /\ cached_prompts = EmptyDict
    /\ cache_timestamp = None
    /\ now = 0
    /\ ticks = 0
    /\ tasks = EmptyBag
    /\ in_flight = 0
    /\ response = NoResponse
    /\ file_name = <<>>
    /\ tool_name = <<>>
    /\ description = <<>>
    /\ ordered = FALSE
    /\ budget = Unbounded

\* the handler (locals f) runs on from the point where
\* fetch_prompts_from_api returned f.prompts, with the globals being cache:
\* to its return, or to the GET of fetch_prompt_content; others are the
\* other suspended coroutines
Continue(f, cache, others) ==
    LET target == TargetOf(f.op, f.arg, f.prompts) IN
    /\ cached_prompts' = cache.prompts
    /\ cache_timestamp' = cache.ts
    /\ IF target > 0
       THEN /\ tasks' = others (+) SetToBag({[f EXCEPT !.pc = "content_wait",
                                                       !.target = target,
                                                       !.later_refreshes = 0]})
            /\ UNCHANGED response
       ELSE /\ tasks' = others
            /\ response' =
                 [op |-> f.op, arg |-> f.arg, prompts |-> f.prompts,
                  fetched |-> f.fetched, valid_at_start |-> f.valid_at_start,
                  upstream |-> f.upstream, superseded |-> f.superseded,
                  content_outcome |-> "none",
                  result |-> HandlerResult(f.op, f.arg, f.prompts, cache.ts)]

\* variant: handlers on one sequential path, a call that finds a valid
\* cache waiting while a catalog GET is pending
Start_behind_pending_fetch(op, arg) ==
    /\ response = NoResponse
    /\ BagCardinality(tasks) < MaxReq
    /\ budget # 0
    /\ LET cache == CacheAtStart(op)
           cached == get_cached_prompts(cache.prompts, cache.ts, now)
           f == [pc |-> "catalog_wait", op |-> op, arg |-> arg,
                 later_refreshes |-> 0, superseded |-> FALSE,
                 prompts |-> cached, target |-> 0,
                 fetched |-> ~Truthy(cached),
                 valid_at_start |->
                     Truthy(get_cached_prompts(cached_prompts, cache_timestamp, now)),
                 upstream |-> NoUpstream]
       IN  IF Truthy(cached) /\ in_flight = 0
           THEN Continue(f, cache, tasks) /\ UNCHANGED in_flight
           ELSE /\ cached_prompts' = cache.prompts
                /\ cache_timestamp' = cache.ts
                /\ tasks' = (IF op = "refresh" /\ ordered THEN Invalidated(tasks) ELSE tasks)
                             (+) SetToBag({f})
                /\ in_flight' = in_flight + 1
                /\ UNCHANGED response
    /\ budget' = IF budget = Unbounded THEN Unbounded ELSE budget - 1
    /\ UNCHANGED <<now, ticks, file_name, tool_name, description, ordered>>

\* a client invokes tool op with argument arg; the coroutine runs to its
\* first suspension: the catalog GET on a cache miss, else as Continue
Start(op, arg) ==
    /\ response = NoResponse
    /\ BagCardinality(tasks) < MaxReq
    /\ budget # 0
    /\ LET cache == CacheAtStart(op)
           cached == get_cached_prompts(cache.prompts, cache.ts, now)
           f == [pc |-> "catalog_wait", op |-> op, arg |-> arg,
                 later_refreshes |-> 0, superseded |-> FALSE,
                 prompts |-> cached, target |-> 0,
                 fetched |-> ~Truthy(cached),
                 valid_at_start |->
                     Truthy(get_cached_prompts(cached_prompts, cache_timestamp, now)),
                 upstream |-> NoUpstream]
       IN  IF Truthy(cached)
           THEN Continue(f, cache, tasks) /\ UNCHANGED in_flight
           ELSE /\ cached_prompts' = cache.prompts
                /\ cache_timestamp' = cache.ts
                /\ tasks' = (IF op = "refresh" /\ ordered THEN Invalidated(tasks) ELSE tasks)
                             (+) SetToBag({f})
                /\ in_flight' = in_flight + 1             \* client.get(PROMPT_API_URL)
                /\ UNCHANGED response
    /\ budget' = IF budget = Unbounded THEN Unbounded ELSE budget - 1
    /\ UNCHANGED <<now, ticks, file_name, tool_name, description, ordered>>

\* variant: fetch_prompts_from_api dropping the stored snapshot when its GET
\* or the envelope check fails
CatalogResponse_clearing_on_failure(f, resp) ==
    /\ response = NoResponse
    /\ f \in Waiting("catalog_wait")
    /\ LET fetched == fetch_prompts_from_api(resp)
           cache == IF fetched.store
                    THEN [prompts |-> fetched.value, ts |-> now]
                    ELSE [prompts |-> EmptyDict, ts |-> None]
           g == [f EXCEPT !.prompts = fetched.value, !.upstream = resp]
           others == IF f.op = "refresh" /\ ordered
                     THEN RefreshEnded(tasks (-) SetToBag({f}),
                                       f.later_refreshes, fetched.store)
                     ELSE tasks (-) SetToBag({f})
       IN  Continue(g, cache, others)
    /\ in_flight' = in_flight - 1
    /\ UNCHANGED <<now, ticks, file_name, tool_name, description, ordered, budget>>

\* the catalog GET of a waiting coroutine f ends with resp;
\* fetch_prompts_from_api stores and returns, and the handler runs on
CatalogResponse(f, resp) ==
    /\ response = NoResponse
    /\ f \in Waiting("catalog_wait")
    /\ LET fetched == fetch_prompts_from_api(resp)
           cache == IF fetched.store
                    THEN [prompts |-> fetched.value, ts |-> now]   \* update_cache
                    ELSE [prompts |-> cached_prompts, ts |-> cache_timestamp]
           g == [f EXCEPT !.prompts = fetched.value, !.upstream = resp]
           others == IF f.op = "refresh" /\ ordered
                     THEN RefreshEnded(tasks (-) SetToBag({f}),
                                       f.later_refreshes, fetched.store)
                     ELSE tasks (-) SetToBag({f})
       IN  Continue(g, cache, others)
    /\ in_flight' = in_flight - 1
    /\ UNCHANGED <<now, ticks, file_name, tool_name, description, ordered, budget>>

\* variant: a content GET whose completion renews the cache timestamp
ContentResponse_touching_cache(f, outcome) ==
    /\ response = NoResponse
    /\ f \in Waiting("content_wait")
    /\ LET target_prompt == f.prompts.items[f.target]
           content == fetch_prompt_content(target_prompt.signed_url, outcome)
       IN  response' =
             [op |-> f.op, arg |-> f.arg, prompts |-> f.prompts,
              fetched |-> f.fetched, valid_at_start |-> f.valid_at_start,
              upstream |-> f.upstream, superseded |-> f.superseded,
              content_outcome |-> outcome,
              result |-> get_prompt_by_name(target_prompt, content)]
    /\ tasks' = tasks (-) SetToBag({f})
    /\ cache_timestamp' = now + 1
    /\ UNCHANGED <<cached_prompts, now, ticks, in_flight, file_name, tool_name, description, ordered, budget>>

\* the content GET of a waiting coroutine f ends; get_prompt_by_name returns
ContentResponse(f, outcome) ==
    /\ response = NoResponse
    /\ f \in Waiting("content_wait")
    /\ LET target_prompt == f.prompts.items[f.target]
           content == fetch_prompt_content(target_prompt.signed_url, outcome)
       IN  response' =
             [op |-> f.op, arg |-> f.arg, prompts |-> f.prompts,
              fetched |-> f.fetched, valid_at_start |-> f.valid_at_start,
              upstream |-> f.upstream, superseded |-> f.superseded,
              content_outcome |-> outcome,
              result |-> get_prompt_by_name(target_prompt, content)]
    /\ tasks' = tasks (-) SetToBag({f})
    /\ UNCHANGED <<cached_prompts, cache_timestamp, now, ticks, in_flight,
                   file_name, tool_name, description, ordered, budget>>

\* time passes
Tick(d) ==
    /\ response = NoResponse
    /\ ticks < MaxTicks
    /\ now' = now + d
    /\ ticks' = ticks + 1
    /\ UNCHANGED response
    /\ UNCHANGED <<cached_prompts, cache_timestamp, tasks, in_flight,
                   file_name, tool_name, description, ordered, budget>>

\* the event loop hands the result of the handler that just returned to
\* the client before it runs anything else
Deliver ==
    /\ response # NoResponse
    /\ response' = NoResponse
    /\ UNCHANGED <<cached_prompts, cache_timestamp, now, ticks, tasks, in_flight,
                   file_name, tool_name, description, ordered, budget>>

Next ==
    \/ \E op \in Ops : \E arg \in ArgsOf(op) : Start(op, arg)
    \/ \E f \in BagToSet(tasks), resp \in Responses : CatalogResponse(f, resp)
    \/ \E f \in BagToSet(tasks), outcome \in ContentOutcomes : ContentResponse(f, outcome)
    \/ \E d \in Steps : Tick(d)
    \/ Deliver

Spec == Init /\ [][Next]_vars

\* number of tool calls of a finite workload
MaxCalls == 3

\* the server under a workload of MaxCalls tool calls, during which the
\* clock is observed to advance once
InitFinite ==
    /\ cached_prompts = EmptyDict
    /\ cache_timestamp = None
    /\ now = 0
    /\ ticks = MaxTicks - 1
    /\ tasks = EmptyBag
    /\ in_flight = 0
    /\ response = NoResponse
    /\ file_name = <<>>
    /\ tool_name = <<>>
    /\ description = <<>>
    /\ ordered = FALSE
    /\ budget = MaxCalls

\* the end of some pending catalog GET, by an answer or by the 30 s timeout
\* of the client (a transport failure)
CatalogGetEnds ==
    \E f \in BagToSet(tasks), resp \in Responses : CatalogResponse(f, resp)

\* the end of some pending content GET, likewise
ContentGetEnds ==
    \E f \in BagToSet(tasks), outcome \in ContentOutcomes : ContentResponse(f, outcome)

\* variant: catalog GETs without a timeout, free never to end
SpecFinite_no_timeout ==
    /\ InitFinite
    /\ [][Next]_vars
    /\ WF_vars(ContentGetEnds)
    /\ WF_vars(Deliver)

\* every network call ends and the event loop runs what is ready
SpecFinite ==
    /\ InitFinite
    /\ [][Next]_vars
    /\ WF_vars(CatalogGetEnds)
    /\ WF_vars(ContentGetEnds)
    /\ WF_vars(Deliver)

\* the server with the order of catalog GETs and invalidations recorded
InitOrdered ==
    /\ cached_prompts = EmptyDict
    /\ cache_timestamp = None
    /\ now = 0
    /\ ticks = 0
    /\ tasks = EmptyBag
    /\ in_flight = 0
    /\ response = NoResponse
    /\ file_name = <<>>
    /\ tool_name = <<>>
    /\ description = <<>>
    /\ ordered = TRUE
    /\ budget = Unbounded

SpecOrdered == InitOrdered /\ [][Next]_vars

----------------------------------------------------------------------------
(* sanitize_tool_name on its own: called once on each of a bounded set of  *)
(* file names                                                              *)

\* number of pieces a file name is put together from
MaxPieces == 3

Pieces == { DotTxt, <<"a">>, <<"B">>, <<"1">>, <<"-">>, <<" ">>, <<"_">>,
            <<"!">>, <<".">> }

RECURSIVE Concat(_, _)
\* the pieces ps[i], ps[i+1], ... joined
Concat(ps, i) ==
    IF i > Len(ps) THEN <<>> ELSE ps[i] \o Concat(ps, i + 1)

FileNames ==
    UNION { {Concat(ps, 1) : ps \in [1..n -> Pieces]} : n \in 0..MaxPieces }

InitSanitize ==
    /\ cached_prompts = EmptyDict
    /\ cache_timestamp = None
    /\ now = 0
    /\ ticks = 0
    /\ tasks = EmptyBag
    /\ in_flight = 0
    /\ response = NoResponse
    /\ file_name \in FileNames
    /\ tool_name = <<>>
    /\ description = <<>>
    /\ ordered = FALSE
    /\ budget = Unbounded

\* the call sanitize_tool_name(file_name)
Sanitize ==
    /\ tool_name = <<>>
    /\ tool_name' = sanitize_tool_name(file_name)
    /\ UNCHANGED <<server_vars, file_name, description, ordered, budget>>

NextSanitize == Sanitize

SpecSanitize == InitSanitize /\ [][NextSanitize]_vars

----------------------------------------------------------------------------
(* create_tool_description on its own: called once on each of a bounded    *)
(* set of file names                                                       *)

\* number of pieces a described file name is put together from
MaxTokens == 3

Tokens == { <<"t","e","s","t">>, <<"U","I">>, <<"f","r","o","n","t","e","n","d">>,
            <<"f","e","s">>, <<"b","e">>, <<"b","a","c","k","e","n","d">>,
            <<"A","p","i">>, <<"t","e">>, <<"s","t">>, <<"x">>, <<"-">> }

TokenNames ==
    UNION { {Concat(ps, 1) : ps \in [1..n -> Tokens]} : n \in 0..MaxTokens }

InitDescribe ==
    /\ cached_prompts = EmptyDict
    /\ cache_timestamp = None
    /\ now = 0
    /\ ticks = 0
    /\ tasks = EmptyBag
    /\ in_flight = 0
    /\ response = NoResponse
    /\ file_name \in TokenNames
    /\ tool_name = <<>>
    /\ description = <<>>
    /\ ordered = FALSE
    /\ budget = Unbounded

\* the call create_tool_description(file_name, 10, Date1)
Describe ==
    /\ description = <<>>
    /\ description' = create_tool_description(file_name, 10, Date1)
    /\ UNCHANGED <<server_vars, file_name, tool_name, ordered, budget>>

NextDescribe == Describe

SpecDescribe == InitDescribe /\ [][NextDescribe]_vars

----------------------------------------------------------------------------
(* Claims                                                                  *)

IsRead(f) == f.op \in {"list", "get", "search"}

\* list, get and search coroutines suspended at their catalog GET
ReadersWaiting ==
    BagCardinality([f \in {g \in Waiting("catalog_wait") : IsRead(g)}
                       |-> CopiesIn(f, tasks)])

\* C1: single-flight. When two or more list/get/search requests that found
\* the cache missing or stale are suspended together at their catalog fetch
\* (and no refresh is), exactly one upstream catalog GET has been issued
\* for all of them.
C1_SingleFlight ==
    (ReadersWaiting >= 2 /\ ReadersWaiting = NumWaiting("catalog_wait"))
        => in_flight = 1

\* C2: in every reachable state at most one upstream catalog fetch is in
\* flight (request sent, response not yet processed).
C2_AtMostOneInFlight == in_flight <= 1

\* C3: cache validity window. With a snapshot stored at time T =
\* cache_timestamp, get_cached_prompts returns that snapshot at every time
\* now with now - T < 300 and None at every later time.
C3_ValidityWindow ==
    cache_timestamp # None =>
        get_cached_prompts(cached_prompts, cache_timestamp, now)
            = IF now - cache_timestamp < CACHE_DURATION
              THEN cached_prompts
              ELSE PyNone

\* C4: refresh_prompt_cache always issues an upstream catalog fetch: a
\* refresh coroutine is never past its start without having sent the
\* catalog GET, and no refresh returns a result without having fetched,
\* whatever the cache held when it started.
C4_RefreshAlwaysFetches ==
    /\ \A f \in BagToSet(tasks) :
          f.op = "refresh" => (f.pc = "catalog_wait" /\ f.fetched)
    /\ response.op = "refresh" =>
          (response.fetched /\ response.upstream # NoUpstream)

\* C4 witness: a refresh that started while the cache held a snapshot
\* younger than 300 seconds is waiting for its catalog GET.
C4_Witness ==
    \E f \in BagToSet(tasks) :
        f.op = "refresh" /\ f.valid_at_start /\ f.pc = "catalog_wait"

\* C5: a refresh whose fetch brought a catalog returns status "success"
\* with total_prompts equal to the number of artifacts of that catalog.
C5_RefreshCount ==
    (response.op = "refresh" /\ response.upstream \in OkResponses) =>
        /\ response.result.status = "success"
        /\ response.result.total_prompts = Len(response.upstream.data.items)

\* C5 witness: a refresh started over a valid non-empty cache returns the
\* count 0 of a freshly fetched empty catalog.
C5_Witness ==
    /\ response.op = "refresh"
    /\ response.valid_at_start
    /\ response.upstream = Envelope("2xx", 200, TRUE, JList(CatEmpty))
    /\ response.result.status = "success"
    /\ response.result.total_prompts = 0

\* the artifacts of the catalog a returned call worked on
RespItems == response.prompts.items

\* indices of the artifacts whose lower-cased file_name equals the
\* lower-cased argument of the returned call
ExactMatches ==
    {i \in 1..Len(RespItems) : lower(RespItems[i].file_name) = lower(response.arg)}

\* C6: get_prompt_by_name(f) succeeds iff some artifact's file_name equals f
\* when both are lower-cased; the success result carries that artifact's
\* own file_name, the content the content fetch of its signed_url returned,
\* and its size, updated and content_type.
C6_GetByName ==
    (response.op = "get" /\ response.prompts.json = "list") =>
        /\ (response.result.status = "success") <=> (ExactMatches # {})
        /\ response.result.status = "success" =>
             \E i \in ExactMatches :
                /\ response.result.file_name = RespItems[i].file_name
                /\ response.result.content =
                     (IF response.content_outcome = "ok"
                      THEN <<"content of ", RespItems[i].signed_url>>
                      ELSE <<"Error loading prompt: ", response.content_outcome>>)
                /\ response.result.metadata =
                     [size |-> RespItems[i].size,
                      updated |-> RespItems[i].updated,
                      content_type |-> RespItems[i].content_type]

\* C6 witness: a get whose argument differs in case from the file_name it
\* matched, and is a proper substring of an earlier file_name, has returned
\* the content.
C6_Witness ==
    /\ response.op = "get"
    /\ response.result.status = "success"
    /\ response.content_outcome = "ok"
    /\ response.result.file_name # response.arg
    /\ response.result.file_name = Name_a
    /\ RespItems[1].file_name = Name_Ba

\* C7: when no artifact of the catalog matches f case-insensitively,
\* get_prompt_by_name(f) returns status "error" without a content fetch,
\* and available_files is the file_names of the catalog in catalog order.
C7_NotFound ==
    (response.op = "get" /\ response.prompts.json = "list" /\ ExactMatches = {}) =>
        /\ response.result.status = "error"
        /\ response.content_outcome = "none"
        /\ Len(response.result.available_files) = Len(RespItems)
        /\ \A i \in 1..Len(RespItems) :
              response.result.available_files[i] = RespItems[i].file_name

\* C7 witness: a get that matched nothing in a catalog of two artifacts,
\* one of them with an upper-case letter in its name, has returned.
C7_Witness ==
    /\ response.op = "get"
    /\ response.result.status = "error"
    /\ response.prompts = JList(CatTwo)
    /\ response.result.available_files = <<Name_Ba, Name_a>>

\* indices of the artifacts whose lower-cased file_name contains the
\* lower-cased keyword of the returned call
KeywordMatches ==
    {i \in 1..Len(RespItems) :
        Contains(lower(RespItems[i].file_name), lower(response.arg))}

\* C8: search_prompts(k) returns exactly the artifacts whose lower-cased
\* file_name contains lower-cased k, all of them, in catalog order, with
\* matches_found their number; the empty keyword returns every artifact.
C8_Search ==
    (response.op = "search" /\ response.prompts.json = "list") =>
        /\ response.result.status = "success"
        /\ response.result.matches_found = Cardinality(KeywordMatches)
        /\ Len(response.result.prompts) = Cardinality(KeywordMatches)
        /\ \A j \in 1..Len(response.result.prompts) :
              \E i \in KeywordMatches :
                 /\ Cardinality({k \in KeywordMatches : k < i}) = j - 1
                 /\ response.result.prompts[j].file_name = RespItems[i].file_name
                 /\ response.result.prompts[j].size = RespItems[i].size
        /\ response.arg = <<>> => Len(response.result.prompts) = Len(RespItems)

\* C8 witness: a search with an upper-case keyword returned the first and
\* the third of three artifacts.
C8_Witness ==
    /\ response.op = "search"
    /\ response.arg = <<"B">>
    /\ response.prompts = JList(CatThree)
    /\ response.result.matches_found = 2
    /\ response.result.prompts[1].file_name = Name_a_dash_b
    /\ response.result.prompts[2].file_name = Name_a_under_b

\* C9: for a non-empty catalog list_available_prompts returns "success"
\* with one entry per artifact, in catalog order, each with tool_name =
\* sanitize_tool_name(file_name); total_prompts is the catalog length and
\* entries with colliding tool_names are all kept.
C9_ListEntries ==
    (response.op = "list" /\ Truthy(response.prompts)) =>
        /\ response.result.status = "success"
        /\ response.result.total_prompts = Len(RespItems)
        /\ Len(response.result.prompts) = Len(RespItems)
        /\ \A i \in 1..Len(RespItems) :
              /\ response.result.prompts[i].file_name = RespItems[i].file_name
              /\ response.result.prompts[i].tool_name =
                    sanitize_tool_name(RespItems[i].file_name)
        /\ response.fetched => response.prompts = response.upstream.data

\* C9 witness: a list of three artifacts of which the first and the third
\* have the same tool_name a_b, the second the prefixed prompt_1_ui.
C9_Witness ==
    /\ response.op = "list"
    /\ response.result.status = "success"
    /\ response.result.total_prompts = 3
    /\ response.result.prompts[1].tool_name = <<"a", "_", "b">>
    /\ response.result.prompts[2].tool_name =
          <<"p", "r", "o", "m", "p", "t", "_", "1", "_", "u", "i">>
    /\ response.result.prompts[3].tool_name = <<"a", "_", "b">>

\* C10: when the catalog endpoint answers with a failure and no valid cache
\* exists, list_available_prompts returns a result (it raises nothing) with
\* status "error" and an empty prompts list.
C10_ListOnFailure ==
    (response.op = "list" /\ response.fetched
        /\ response.upstream \in FailedResponses) =>
        /\ response.result.status = "error"
        /\ response.result.prompts = <<>>

\* C10 witness: a list whose catalog GET ended in a transport failure
\* (HTTP 500) has returned its error result.
C10_Witness ==
    /\ response.op = "list"
    /\ response.fetched
    /\ response.upstream.transport = "fail"
    /\ response.result.status = "error"

\* C11: every tool (list, get, search, refresh, and a pre-bound get such as
\* get_fes_prompt) returns, for every upstream outcome, a result whose
\* status is "success" or "error"; no exception reaches the caller.
C11_StatusDiscriminator ==
    response # NoResponse =>
        /\ response.op \in Ops
        /\ response.result.status \in {"success", "error"}

\* get_fes_prompt has returned an error result after the catalog fetch
\* handed it None and iterating it raised
C11_Witness ==
    /\ response.op = "get"
    /\ response.arg = Name_fes
    /\ response.prompts = PyNone
    /\ response.result.status = "error"

\* C12: whenever the catalog fetch or the content fetch of a tool call
\* failed, the result has status "error" and carries a message.
C12_FailureIsError ==
    response # NoResponse =>
        (((response.fetched /\ response.upstream \in FailedResponses)
            \/ response.content_outcome = "fail")
         => (/\ response.result.status = "error"
             /\ "message" \in DOMAIN response.result))

\* C13: fetch_prompts_from_api never raises; when the transport of the
\* catalog GET fails (connection error, timeout, non-2xx answer) it returns
\* an empty sequence, which is what the handler then works on.
C13_TransportFailureGivesEmpty ==
    (response.fetched /\ response.upstream.transport = "fail") =>
        /\ response.prompts = JList(<<>>)
        /\ response.result.status \in {"success", "error"}

\* search_prompts has returned after its catalog GET failed, having
\* searched an empty sequence
C13_Witness ==
    /\ response.op = "search"
    /\ response.fetched
    /\ response.upstream.transport = "fail"
    /\ response.result.status = "success"
    /\ response.result.matches_found = 0

\* C14: fetch_prompts_from_api returns a non-empty result and stores it in
\* the cache only if the envelope has status 200 and a data field that is a
\* list; for every other envelope (status not 200, data missing, data not a
\* list such as null) it returns an empty sequence, and stores nothing.
C14_EnvelopeValidation ==
    /\ (response.fetched /\ response.upstream.transport = "2xx") =>
          IF /\ response.upstream.status = 200
             /\ response.upstream.has_data
             /\ response.upstream.data.json = "list"
          THEN response.prompts = response.upstream.data
          ELSE response.prompts = JList(<<>>)
    /\ cache_timestamp # None => cached_prompts.json = "list"

\* C15: fetch_prompt_content never raises; when the content GET fails it
\* returns a string beginning "Error loading prompt: ", and
\* get_prompt_by_name returns that string in content, in a result shaped
\* exactly as the result carrying genuine content.
C15_ContentSentinel ==
    (response.op = "get" /\ response.content_outcome \in ContentOutcomes) =>
        \E i \in 1..Len(response.prompts.items) :
            LET p == response.prompts.items[i] IN
            /\ response.result.status = "success"
            /\ DOMAIN response.result =
                   {"status", "file_name", "content", "metadata"}
            /\ response.result.file_name = p.file_name
            /\ response.result.metadata =
                   [size |-> p.size, updated |-> p.updated,
                    content_type |-> p.content_type]
            /\ IF response.content_outcome = "fail"
               THEN response.result.content[1] = "Error loading prompt: "
               ELSE response.result.content = <<"content of ", p.signed_url>>

\* get_prompt_by_name has returned after its content GET failed
C15_Witness ==
    /\ response.op = "get"
    /\ response.content_outcome = "fail"
    /\ response.result.status = "success"
    /\ response.result.content[1] = "Error loading prompt: "

\* C16: prompt content is never cached: a get_prompt_by_name call that finds
\* its file returns only when a content GET of its own has ended (a call
\* served from the cached catalog included, so two calls make two content
\* GETs), and the end of a content GET leaves _cached_prompts and
\* _cache_timestamp as they were.
C16_ContentNeverCached ==
    [][ /\ (/\ response = NoResponse
            /\ response'.op = "get"
            /\ response'.result.status = "success")
           => /\ NumWaiting("content_wait")' = NumWaiting("content_wait") - 1
              /\ response'.content_outcome \in ContentOutcomes
        /\ (NumWaiting("content_wait")' < NumWaiting("content_wait"))
           => UNCHANGED <<cached_prompts, cache_timestamp>>
      ]_vars

\* a get_prompt_by_name call that found its file in the cached catalog has
\* returned content its own GET fetched, the cache still holding that catalog
C16_Witness ==
    /\ response.op = "get"
    /\ ~response.fetched
    /\ response.content_outcome = "ok"
    /\ response.result.status = "success"
    /\ cached_prompts = response.prompts

\* C17: whenever the event loop has control (every coroutine suspended or
\* returned), _cached_prompts and _cache_timestamp are both cleared or both
\* set, and whenever they change they become the cleared pair or the pair
\* one update_cache call wrote (the data of a status-200 envelope with the
\* current time).
C17_SnapshotConsistent ==
    /\ [](cache_timestamp = None <=> cached_prompts = EmptyDict)
    /\ [][ (cached_prompts' # cached_prompts \/ cache_timestamp' # cache_timestamp)
           => \/ /\ cached_prompts' = EmptyDict
                 /\ cache_timestamp' = None
              \/ /\ cache_timestamp' = now
                 /\ \E resp \in Responses :
                       /\ resp.transport = "2xx"
                       /\ resp.status = 200
                       /\ resp.has_data
                       /\ cached_prompts' = resp.data
         ]_vars

\* a coroutine is suspended while the cache holds a stored catalog
C17_Witness ==
    /\ tasks # EmptyBag
    /\ cache_timestamp # None
    /\ cached_prompts.json = "list"
    /\ cached_prompts.items # <<>>

\* the characters an identifier may start with, and may go on with
IdentStart == UpperSet \cup LowerSet \cup {"_"}

IdentChars == IdentStart \cup Digits

\* C18: sanitize_tool_name is total: for every input string it returns a
\* string matching [a-zA-Z_][a-zA-Z0-9_]*, the fallback unknown_prompt
\* included (it is a function of its argument, so the same input gives the
\* same output).
C18_SanitizeIsIdentifier ==
    tool_name # <<>> =>
        /\ tool_name = sanitize_tool_name(file_name)
        /\ tool_name[1] \in IdentStart
        /\ \A i \in 1..Len(tool_name) : tool_name[i] \in IdentChars

\* sanitize_tool_name was called on a name whose cleaned form starts with a
\* digit, and returned it behind the prefix prompt_
C18_Witness ==
    /\ file_name # <<>>
    /\ file_name[1] \in Digits
    /\ Len(tool_name) > 7
    /\ SubSeq(tool_name, 1, 7) = <<"p","r","o","m","p","t","_">>
    /\ tool_name[8] \in Digits

\* steps 2 and 3 of the procedure, character by character: '-' and ' '
\* become '_', characters outside [A-Za-z0-9_] go
RECURSIVE CleanFrom(_, _)
CleanFrom(s, i) ==
    IF i > Len(s) THEN <<>>
    ELSE IF s[i] \in {"-", " "} THEN <<"_">> \o CleanFrom(s, i + 1)
    ELSE IF s[i] \in IdentChars THEN <<s[i]>> \o CleanFrom(s, i + 1)
    ELSE CleanFrom(s, i + 1)

\* whether s ends in ".txt"
EndsWithTxt(s) ==
    Len(s) >= 4 /\ SubSeq(s, Len(s) - 3, Len(s)) = <<".", "t", "x", "t">>

\* steps 4 and 5 of the procedure
PrefixOrFallback(cleaned) ==
    IF cleaned = <<>>
    THEN <<"u","n","k","n","o","w","n","_","p","r","o","m","p","t">>
    ELSE IF cleaned[1] \in Digits
         THEN <<"p","r","o","m","p","t","_">> \o cleaned
         ELSE cleaned

\* the five-step procedure
FiveSteps(s) ==
    LET stripped == IF EndsWithTxt(s) THEN SubSeq(s, 1, Len(s) - 4) ELSE s
    IN  PrefixOrFallback(CleanFrom(stripped, 1))

\* C19: for every input string, sanitize_tool_name returns what the
\* five-step procedure gives: strip only a trailing ".txt", replace '-' and
\* ' ' by '_', remove the characters outside [A-Za-z0-9_], prefix prompt_
\* before a leading digit, unknown_prompt if nothing is left.
C19_SanitizeIsFiveSteps ==
    tool_name # <<>> => tool_name = FiveSteps(file_name)

\* C20: for a file name <stem>.txt, sanitize_tool_name returns prompt_
\* followed by the cleaned stem if the cleaned stem starts with a digit,
\* unknown_prompt if the cleaned stem is empty, and the cleaned stem
\* otherwise.
C20_StemCases ==
    (tool_name # <<>> /\ EndsWithTxt(file_name)) =>
        LET cleaned == CleanFrom(SubSeq(file_name, 1, Len(file_name) - 4), 1)
        IN  \/ /\ cleaned # <<>>
               /\ cleaned[1] \in Digits
               /\ tool_name = <<"p","r","o","m","p","t","_">> \o cleaned
            \/ /\ cleaned = <<>>
               /\ tool_name = <<"u","n","k","n","o","w","n","_","p","r","o","m","p","t">>
            \/ /\ cleaned # <<>>
               /\ cleaned[1] \notin Digits
               /\ tool_name = cleaned

\* C21: in every success result of list_available_prompts, cache_info.cached
\* is true iff the catalog of this call was served from the cache (the call
\* sent no catalog GET), and cache_info.cache_age is the non-negative age of
\* the snapshot that was served.
C21_CacheInfo ==
    (response.op = "list" /\ response.result.status = "success") =>
        /\ response.result.cache_info.cached <=> ~response.fetched
        /\ response.result.cache_info.cache_age >= 0
        /\ response.result.cache_info.cache_age = now - cache_timestamp

\* the list, get and search tools
Reads == {"list", "get", "search"}

\* C22: when the cache holds a snapshot that has gone stale and the catalog
\* GET a list, get or search request sent fails, the request works on that
\* last snapshot, not on an empty catalog.
C22_StaleFallback ==
    (/\ response.op \in Reads
     /\ response.fetched
     /\ response.content_outcome = "none"
     /\ response.upstream.transport = "fail"
     /\ cache_timestamp # None
     /\ cached_prompts.json = "list"
     /\ cached_prompts.items # <<>>
     /\ now - cache_timestamp >= CACHE_DURATION)
    => response.prompts = cached_prompts

\* no snapshot is stored
Absent == cached_prompts = EmptyDict /\ cache_timestamp = None

\* refresh_prompt_cache coroutines suspended at their catalog GET
RefreshWaiting ==
    BagCardinality([f \in {g \in Waiting("catalog_wait") : g.op = "refresh"}
                       |-> CopiesIn(f, tasks)])

\* a list, get or search call returns in this step, straight from the end
\* of a successful catalog GET of its own
ReadFetchSucceeds ==
    /\ response = NoResponse
    /\ response'.op \in Reads
    /\ response'.fetched
    /\ response'.content_outcome = "none"
    /\ response'.upstream \in OkResponses

\* C23: cache lifecycle. The stored snapshot goes from absent to present
\* only through the store that follows a successful catalog fetch, and from
\* present to absent only through refresh_prompt_cache; the passing of time
\* changes no stored state; a list, get or search call that does not find a
\* valid snapshot (a stale one included) sends a catalog GET, and when that
\* GET succeeds the cache is valid again: get_cached_prompts returns the
\* catalog just fetched.
C23_CacheLifecycle ==
    /\ [](response.op \in Reads =>
              (response.valid_at_start \/ response.fetched))
    /\ [][ /\ (Absent /\ ~Absent')
              => /\ in_flight' = in_flight - 1
                 /\ cache_timestamp' = now
                 /\ \E resp \in OkResponses : cached_prompts' = resp.data
           /\ (~Absent /\ Absent')
              => RefreshWaiting' = RefreshWaiting + 1
           /\ (now' # now)
              => UNCHANGED <<cached_prompts, cache_timestamp>>
           /\ ReadFetchSucceeds
              => get_cached_prompts(cached_prompts', cache_timestamp', now')
                     = response'.upstream.data
         ]_vars

\* C24: once a catalog fetch has succeeded and been stored at time T =
\* cache_timestamp, no list, get or search call made at a time in
\* [T, T + 300) sends a catalog GET, whatever catalog was stored, an empty
\* list included: in that window a new catalog GET is sent only by
\* refresh_prompt_cache.
C24_NoFetchInWindow ==
    [][ (/\ cache_timestamp # None
         /\ cached_prompts.json = "list"
         /\ now - cache_timestamp < CACHE_DURATION
         /\ in_flight' > in_flight)
        => RefreshWaiting' > RefreshWaiting
      ]_vars

\* pending catalog GETs that were sent before the invalidation of a refresh
\* that has since stored the catalog it fetched
SupersededWaiting ==
    BagCardinality([f \in {g \in Waiting("catalog_wait") : g.superseded}
                       |-> CopiesIn(f, tasks)])

\* C25: after refresh_prompt_cache has completed with a successful fetch,
\* the cache holds the catalog of that fetch or of a fetch started later:
\* when a catalog GET that was sent before the refresh's invalidation ends,
\* it does not replace what is stored.
C25_RefreshNotOverwritten ==
    [][ SupersededWaiting' < SupersededWaiting
        => UNCHANGED <<cached_prompts, cache_timestamp>>
      ]_vars

\* the answers the catalog fetch fails on: transport error or non-2xx,
\* envelope status other than 200, envelope without data
ListedFailures ==
    {r \in Responses : r.transport = "fail" \/ r.status # 200 \/ ~r.has_data}

\* a call returns in this step, straight from the failure of its catalog GET
FetchFails ==
    /\ response = NoResponse
    /\ response'.fetched
    /\ response'.content_outcome = "none"
    /\ response'.upstream \in ListedFailures

\* C26: a failed catalog fetch (transport error, non-2xx, envelope with
\* status other than 200 or without data) leaves _cached_prompts and
\* _cache_timestamp exactly as they were; they change only by the store
\* that ends a catalog GET answered with status 200 and data, and by the
\* invalidation with which refresh_prompt_cache starts.
C26_FailedFetchFrame ==
    [][ /\ FetchFails => UNCHANGED <<cached_prompts, cache_timestamp>>
        /\ (<<cached_prompts, cache_timestamp>>' # <<cached_prompts, cache_timestamp>>)
           => \/ /\ RefreshWaiting' = RefreshWaiting + 1
                 /\ in_flight' = in_flight + 1
                 /\ Absent'
              \/ /\ in_flight' = in_flight - 1
                 /\ cache_timestamp' = now
                 /\ \E r \in Responses \ ListedFailures : cached_prompts' = r.data
      ]_vars

\* a call has returned from a failed catalog GET and the snapshot stored
\* before is still held
C26_Witness ==
    /\ response.fetched
    /\ response.content_outcome = "none"
    /\ response.upstream \in ListedFailures
    /\ cache_timestamp # None
    /\ cached_prompts.json = "list"
    /\ cached_prompts.items # <<>>

\* C27: every item search_prompts returns for a descriptor is identical,
\* field for field, to the item list_available_prompts returns for the same
\* descriptor (fields file_name, tool_name, size, content_type, updated,
\* expires_at, description, with equal values).
C27_SearchItemsAsList ==
    (response.op = "search" /\ response.result.status = "success") =>
        \A i \in 1..Len(response.result.prompts) :
            LET item == response.result.prompts[i] IN
            /\ DOMAIN item = {"file_name", "tool_name", "size", "content_type",
                              "updated", "expires_at", "description"}
            /\ \E j \in 1..Len(response.prompts.items) :
                  item = FormatPrompt(response.prompts.items[j])

\* the tokens in their order of precedence, each with its category
CategoryOrder ==
    << << <<"t","e","s","t">>, "Testing & Quality Assurance" >>,
       << <<"u","i">>, "Frontend Development" >>,
       << <<"f","r","o","n","t","e","n","d">>, "Frontend Development" >>,
       << <<"f","e","s">>, "Frontend Development" >>,
       << <<"b","e">>, "Backend Development" >>,
       << <<"b","a","c","k","e","n","d">>, "Backend Development" >>,
       << <<"a","p","i">>, "API Development" >> >>

\* whether the lower-case token tok occurs in name, letter case ignored
HasToken(name, tok) ==
    \E i \in 0..(Len(name) - Len(tok)) :
        \A k \in 1..Len(tok) : LowerChar(name[i + k]) = tok[k]

\* the category of the first token of the order that occurs in name
FirstCategory(name) ==
    LET hits == {i \in 1..Len(CategoryOrder) : HasToken(name, CategoryOrder[i][1])}
    IN  IF hits = {} THEN "General Development"
        ELSE CategoryOrder[CHOOSE i \in hits : \A j \in hits : i <= j][2]

\* C28: create_tool_description names exactly one category, found by
\* case-insensitive substring tests on file_name, the first match winning in
\* the order "test" (Testing), "ui" / "frontend" / "fes" (Frontend), "be" /
\* "backend" (Backend), "api" (API), none (General): a name matching several
\* tokens gets the earliest category of the order.
C28_CategoryPrecedence ==
    description # <<>> =>
        /\ Len(description) = 8
        /\ description[3] = " prompt for "
        /\ description[4] = FirstCategory(file_name)

\* create_tool_description was called on a name that has a frontend token
\* and a backend token and none of "test", and named Frontend Development
C28_Witness ==
    /\ description # <<>>
    /\ ~HasToken(file_name, <<"t","e","s","t">>)
    /\ HasToken(file_name, <<"u","i">>)
    /\ HasToken(file_name, <<"b","a","c","k","e","n","d">>)
    /\ description[4] = "Frontend Development"

\* a list, get or search call returns in this step from the cached catalog,
\* having made no network call
ServedFromCache ==
    /\ response = NoResponse
    /\ response'.op \in Reads
    /\ ~response'.fetched
    /\ response'.content_outcome = "none"

\* C29: a request is not blocked by another request's network call. A list,
\* get or search call that finds a valid cache never waits at a catalog GET
\* (it is past it with the cached catalog, at most waiting for its own
\* content GET), every coroutine waiting at a catalog GET waits for a GET of
\* its own, and a call served from the cache returns in a step in which no
\* other request's network call ends.
C29_NotBlocked ==
    /\ [](\A f \in BagToSet(tasks) :
             (f.op \in Reads /\ f.valid_at_start)
                 => (f.pc = "content_wait" /\ ~f.fetched))
    /\ [](NumWaiting("catalog_wait") = in_flight)
    /\ [][ ServedFromCache => (tasks' = tasks /\ in_flight' = in_flight) ]_vars

\* a list, get or search call has returned its result from the valid cache
\* while the catalog GET of another request is still in flight
C29_Witness ==
    /\ response.op \in Reads
    /\ response.valid_at_start
    /\ ~response.fetched
    /\ response.content_outcome = "none"
    /\ response.result.status = "success"
    /\ in_flight > 0
    /\ tasks # EmptyBag

\* C30: every invoked operation (list, get, search, refresh) eventually
\* returns a result, given that the event loop is fair and every network
\* call ends by an answer or by its 30-second timeout: whatever requests are
\* suspended, and however the calls of the workload interleave, the server
\* gets to a state in which none is waiting.
C30_EveryCallReturns ==
    (tasks # EmptyBag) ~> (tasks = EmptyBag /\ response = NoResponse)

\* all calls of the workload have been made and have returned, some
\* catalog having been stored on the way
C30_Witness ==
    /\ budget = 0
    /\ tasks = EmptyBag
    /\ response = NoResponse
    /\ cache_timestamp # None

====
